---------------------------- MODULE Spec2Model ----------------------------
(***************************************************************************)
(* A model of the OMNIC reader (spectrochempy_omnic/reader/read_omnic.py). *)
(*                                                                         *)
(* Text values that the code inspects character by character (file         *)
(* suffixes, format hints) are sequences of one-character strings, so that *)
(* lower-casing and the "starts with a dot" test are computed.             *)
(* Python's None is the distinguished sequence None.                       *)
(***************************************************************************)
EXTENDS Integers, Sequences, FiniteSets, TLC

VARIABLES
    disk,        \* the content of the file the decode calls read
    clsHistory,  \* OMNICReader._history, the list bound to the class attribute
    rdr,         \* the reader object built by the latest OMNICReader(...) call
    held,        \* the reader object built by the call before it, still held by the caller
    last         \* what the latest call was given, what it did and how it ended

vars == <<disk, clsHistory, rdr, held, last>>

-----------------------------------------------------------------------------
(* Text helpers *)

None == <<"<None>">>

LowerChar(c) ==
    CASE c = "A" -> "a" [] c = "D" -> "d" [] c = "G" -> "g" [] c = "H" -> "h"
      [] c = "P" -> "p" [] c = "R" -> "r" [] c = "S" -> "s" [] c = "T" -> "t"
      [] c = "X" -> "x" [] OTHER -> c

\* str.lower()
Lower(s) == [i \in DOMAIN s |-> LowerChar(s[i])]

\* str.startswith(".")
StartsWithDot(s) == Len(s) > 0 /\ s[1] = "."

\* Python truthiness of an optional text: None and "" are falsy
Truthy(s) == s # None /\ s # <<>>

\* Python's `a or b`
PyOr(a, b) == IF Truthy(a) THEN a ELSE b

-----------------------------------------------------------------------------
(* Source resolver *)

\* OMNICReader.suffix
suffix ==
    { <<".", "s", "p", "g">>, <<".", "s", "p", "a">>, <<".", "s", "r", "s">>,
      <<".", "d", "d", "r">>, <<".", "h", "d", "r">>, <<".", "s", "d", "r">> }

\* OMNICReader._get_suffix_from_kwargs
\* kwargs is a record: an option that is not passed is None
get_suffix_from_kwargs(kwargs) ==
    LET s == PyOr(kwargs.protocol, kwargs.suffix) IN
    IF s = None THEN None
    ELSE Lower(IF StartsWithDot(s) THEN s ELSE <<".">> \o s)

\* The result of _check_source: err = "none" and the suffix returned, or the
\* kind of the OMNICReaderError raised, named after its message:
\*   "File has no suffix and suffix (or protocol) parameter is not provided"
\*   and "When using bytes content, the suffix must be provided" : MissingFormat
\*   "File not found"                                           : NotFound
\*   "Invalid suffix"                                           : UnsupportedFormat
\*   "the dict must contain a single element"                   : MultipleContent
Resolved(sfx) == [err |-> "none", suffix |-> sfx]
Raised(kind) == [err |-> kind, suffix |-> None]

\* A source is a record
\*   kind   : "url", "path", "bytes" or "dict"
\*   ext    : Path(source).suffix for a url or a path, the suffix of the first
\*            key for a dict ("" when there is none)
\*   exists : for a path, whether the file exists
\*   nkeys  : for a dict, its number of entries
\* _check_source, lines 1106-1108: a URL
CheckUrl(source, kw_suffix) ==
    LET sfx == Lower(source.ext) IN
    Resolved(IF sfx \notin suffix THEN kw_suffix ELSE sfx)

\* A path that fails with "File not found" before the suffix is looked at
CheckPathExistsFirst(source, kw_suffix) ==
    IF ~source.exists THEN Raised("NotFound")
    ELSE IF source.ext = <<>> /\ kw_suffix = None THEN Raised("MissingFormat")
    ELSE
        LET sfx == IF source.ext # <<>> THEN Lower(source.ext) ELSE kw_suffix IN
        IF sfx \notin suffix THEN Raised("UnsupportedFormat")
        ELSE Resolved(sfx)

\* _check_source, lines 1110-1134: a path
CheckPath(source, kw_suffix) ==
    IF source.ext = <<>> /\ kw_suffix = None THEN Raised("MissingFormat")
    ELSE IF ~source.exists THEN Raised("NotFound")
    ELSE
        LET sfx == IF source.ext # <<>> THEN Lower(source.ext) ELSE kw_suffix IN
        IF sfx \notin suffix THEN Raised("UnsupportedFormat")
        ELSE Resolved(sfx)

\* _check_source, lines 1136-1155: bytes or a dict
CheckContent(source, kw_suffix) ==
    IF source.kind = "dict" /\ kw_suffix = None /\ source.nkeys # 1
    THEN Raised("MultipleContent")
    ELSE
        LET sfx == IF source.kind = "dict" /\ kw_suffix = None
                   THEN Lower(source.ext) ELSE kw_suffix IN
        IF sfx = None THEN Raised("MissingFormat")
        ELSE IF sfx \notin suffix THEN Raised("UnsupportedFormat")
        ELSE Resolved(sfx)

\* OMNICReader._check_source(source, **kwargs), lines 1082-1157
CheckSource(source, kwargs) ==
    LET kw_suffix == get_suffix_from_kwargs(kwargs) IN
    IF source.kind = "url" THEN CheckUrl(source, kw_suffix)
    ELSE IF source.kind = "path" THEN CheckPath(source, kw_suffix)
    ELSE CheckContent(source, kw_suffix)

\* __init__, line 263: getattr(self, f"_read_{suffix[1:]}").  The result is the
\* reader method found, or the exception the lookup raises: suffix[1:] on None
\* is a TypeError, a name that is no attribute of the class an AttributeError.
ReaderFunc(sfx) ==
    IF sfx = None THEN "TypeError"
    ELSE IF sfx = <<".", "s", "p", "g">> THEN "_read_spg"
    ELSE IF sfx = <<".", "s", "p", "a">> THEN "_read_spa"
    ELSE IF sfx = <<".", "s", "r", "s">> THEN "_read_srs"
    ELSE IF sfx = <<".", "d", "d", "r">> THEN "_read_ddr"
    ELSE IF sfx = <<".", "h", "d", "r">> THEN "_read_hdr"
    ELSE IF sfx = <<".", "s", "d", "r">> THEN "_read_sdr"
    ELSE "AttributeError"

-----------------------------------------------------------------------------
(* Binary cursor utilities and file content *)

\* A float32 that is not a number; the other floats are small integers
NaN == 0 - 1

\* np.isnan
IsNaN(v) == v = NaN

\* What fromfile(fid, "float32", count) returns: a scalar when count = 1
\* (line 87), an array otherwise; struct.error when fewer than count values
\* are left before the end of the file.  `avail` are the floats stored from
\* the read position to the end of the file.
FromFileFloats(avail, count) ==
    IF count > Len(avail) THEN [err |-> "struct.error", scalar |-> FALSE, v |-> <<>>]
    ELSE [err |-> "none", scalar |-> (count = 1), v |-> SubSeq(avail, 1, count)]

\* The float content of the file at the block pointers used by the table
\* entries: Blocks[p] are the floats from pointer p to the end of the file.
\* Pointer 0 lies beyond the end of the file.
Blocks == << <<5, NaN, 7>>, <<3, 4>> >>

BlockAt(p) == IF p \in DOMAIN Blocks THEN Blocks[p] ELSE <<>>

\* The header records of the file, by pointer: the bytes _read_header decodes.
\*   nx (+4), xkey (+8), ukey (+12), firstx (+16), lastx (+20), nbkgscan (+52),
\*   ny (+1026, series), bgname (text at +208 begins with "Background", series)
Hdr(nx, xkey, ukey, firstx, lastx, nbkg, ny, bgname) ==
    [nx |-> nx, xkey |-> xkey, ukey |-> ukey, firstx |-> firstx, lastx |-> lastx,
     nbkgscan |-> nbkg, ny |-> ny, bgname |-> bgname]

Headers ==
    << Hdr(2, 1, 17, 9, 1, 4, 2, FALSE),    \* 1: the reference header
       Hdr(3, 1, 17, 9, 1, 4, 2, FALSE),    \* 2: another axis length
       Hdr(2, 1, 17, 8, 1, 4, 2, FALSE),    \* 3: another first x
       Hdr(2, 1, 17, 9, 2, 4, 2, FALSE),    \* 4: another last x
       Hdr(2, 3, 17, 9, 1, 4, 2, FALSE),    \* 5: another axis unit (nm)
       Hdr(2, 1, 16, 9, 1, 4, 2, FALSE),    \* 6: another data unit (percent)
       Hdr(2, 32, 17, 9, 1, 4, 2, FALSE),   \* 7: Raman shift, the same unit cm^-1
       Hdr(2, 2, 22, 9, 1, 0, 2, FALSE),    \* 8: interferogram, no background scan
       Hdr(2, 1, 17, 9, 1, 4, 2, TRUE),     \* 9: long background header
       Hdr(1, 1, 17, 9, 1, 4, 1, FALSE) >>  \* 10: one point, one row


HeaderAt(p) == IF p \in DOMAIN Headers THEN Headers[p] ELSE Headers[1]

\* _read_header, lines 1305-1326: the axis-kind byte
XUnits(key) ==
    CASE key = 1 -> "cm^-1" [] key = 2 -> "None" [] key = 3 -> "nm"
      [] key = 4 -> "um" [] key = 32 -> "cm^-1" [] OTHER -> "None"

XTitle(key) ==
    CASE key = 1 -> "wavenumbers" [] key = 2 -> "data points" [] key = 3 -> "wavelengths"
      [] key = 4 -> "wavelengths" [] key = 32 -> "raman shift" [] OTHER -> "xaxis"

\* _read_header, lines 1328-1365: the data-kind byte
DataUnits(key) ==
    CASE key = 17 -> "absorbance" [] key = 16 -> "percent" [] key = 11 -> "percent"
      [] key = 20 -> "Kubelka_Munk" [] key = 22 -> "V" [] OTHER -> "None"

DataTitle(key) ==
    CASE key = 17 -> "absorbance" [] key = 16 -> "transmittance" [] key = 11 -> "reflectance"
      [] key = 12 -> "log(1/R)" [] key = 15 -> "single beam" [] key = 20 -> "Kubelka-Munk"
      [] key = 21 -> "reflectance" [] key = 22 -> "detector signal"
      [] key = 26 -> "photoacoustic" [] key = 31 -> "Raman intensity" [] OTHER -> "intensity"

\* The first 18 bytes of the file decide the layout (lines 1294-1299):
\* "data" is b"Spectral Data File", "exte" is b"Spectral Exte File"; with any
\* other content the local `filetype` is never bound.
FileType(magic) ==
    CASE magic = "data" -> "spa, spg" [] magic = "exte" -> "srs" [] OTHER -> "unbound"

\* a > b on float32 values: False when either is not a number
Greater(a, b) == ~IsNaN(a) /\ ~IsNaN(b) /\ a > b

\* A swap of the axis bounds that does not look at the background-scan count
SwappedWhenDescending(filetype, nbkgscan, firstx, lastx) ==
    filetype = "srs" /\ Greater(firstx, lastx)

\* _read_header, lines 1391-1394: the axis bounds are swapped
Swapped(filetype, nbkgscan, firstx, lastx) ==
    filetype = "srs" /\ nbkgscan = 0 /\ Greater(firstx, lastx)

\* OMNICReader._read_header(fid, pos) on the header record h, `inside` being
\* whether the record lies within the file: the dictionary returned, or the
\* exception raised (struct.error on a read beyond the end of the file,
\* UnboundLocalError when `filetype` is read unbound at line 1388).
\* The history texts read at +208 and +1200 are NUL-terminated in the files
\* drawn here.
ReadHeaderOf(magic, h, inside) ==
    LET ft == FileType(magic)
        swap == Swapped(ft, h.nbkgscan, h.firstx, h.lastx)
        err == IF ~inside THEN "struct.error"
               ELSE IF ft = "unbound" THEN "UnboundLocalError"
               ELSE "none"
    IN  [err |-> err,
         nx |-> h.nx,
         xunits |-> XUnits(h.xkey), xtitle |-> XTitle(h.xkey),
         units |-> DataUnits(h.ukey), title |-> DataTitle(h.ukey),
         firstx |-> IF swap THEN h.lastx ELSE h.firstx,
         lastx |-> IF swap THEN h.firstx ELSE h.lastx,
         nbkgscan |-> h.nbkgscan,
         series |-> (ft = "srs"),
         ny |-> h.ny,
         has_background_name |-> (ft = "srs" /\ h.bgname)]

\* _read_header at a pointer of the file
ReadHeader(magic, pos) ==
    ReadHeaderOf(magic, HeaderAt(pos), pos \in DOMAIN Headers)

\* OMNICReader._getintensities(fid, pos) on the table entry at pos: the
\* pointer at +2, the byte size at +6, int(size / 4) floats read at the pointer
GetIntensities(entry) ==
    FromFileFloats(BlockAt(entry.ptr), entry.size \div 4)

-----------------------------------------------------------------------------
(* Decoders *)

\* The matrix of a reader: data is None, or an array with its shape and rows
NoData == [isNone |-> TRUE, shape |-> <<>>, rows |-> <<>>]
Matrix(shape, rows) == [isNone |-> FALSE, shape |-> shape, rows |-> rows]

\* The attributes of a reader object that the decoders set.  An axis that is
\* still the class default None has length -1.
NoAxis == 0 - 1
Obj(data, xlen, ylen, masked, filename) ==
    [data |-> data, xlen |-> xlen, ylen |-> ylen, masked |-> masked, filename |-> filename]

\* The attributes of a reader no decoder has set (the class defaults, lines 220-243)
FreshObj == Obj(NoData, NoAxis, NoAxis, FALSE, "None")

\* How a decoder call ended:
\*   status   "ok" (it returned after setting the attributes), "null" (it
\*            returned early, data is None) or "error" (it raised err)
\*   opened   _openfid returned a handle
\*   closed   fid.close() was called on it
\*   appended the values assigned to self.history, in order
\*   obj      the attributes of the reader at the end of the call
Outcome(status, err, closed, appended, obj) ==
    [status |-> status, err |-> err, opened |-> TRUE, closed |-> closed,
     appended |-> appended, obj |-> obj]

\* The locals of _read_spa that the tag scan binds (lines 591-633)
SpaLocals0 ==
    [err |-> "none", has_info |-> FALSE, info |-> ReadHeader("data", 1),
     has_intensities |-> FALSE, intensities |-> FromFileFloats(<<>>, 0),
     has_s_ifg |-> FALSE, s_ifg_intensities |-> FromFileFloats(<<>>, 0),
     has_b_ifg |-> FALSE, b_ifg_intensities |-> FromFileFloats(<<>>, 0),
     has_spa_history |-> FALSE, ncomments |-> 0, visited |-> 0]

\* A test of the intensity marker that does not look at the interferogram option
DecodesIntensitiesAlways(key, interferogram) == key = 3

\* _read_spa, line 606: the entry is decoded as the intensities of the spectrum
DecodesIntensities(key, interferogram) == key = 3 /\ interferogram = "None"

\* The `while "continue"` loop of _read_spa from table entry i on: entry i is
\* the 16 bytes at offset 304 + 16 * (i - 1).  Reading the key byte at the end
\* of the file raises struct.error.
RECURSIVE SpaScan(_, _, _, _)
SpaScan(file, interferogram, i, loc) ==
    IF i > Len(file.table) THEN [loc EXCEPT !.err = "struct.error"]
    ELSE
    LET e == file.table[i]
        l == [loc EXCEPT !.visited = i]
    IN
    IF e.key = 2 THEN
        LET info == ReadHeader(file.magic, e.ptr) IN
        IF info.err # "none" THEN [l EXCEPT !.err = info.err]
        ELSE SpaScan(file, interferogram, i + 1,
                     [l EXCEPT !.has_info = TRUE, !.info = info])
    ELSE IF DecodesIntensities(e.key, interferogram) THEN
        LET r == GetIntensities(e) IN
        IF r.err # "none" THEN [l EXCEPT !.err = r.err]
        ELSE SpaScan(file, interferogram, i + 1,
                     [l EXCEPT !.has_intensities = TRUE, !.intensities = r])
    ELSE IF e.key = 4 THEN
        SpaScan(file, interferogram, i + 1, [l EXCEPT !.ncomments = @ + 1])
    ELSE IF e.key = 27 THEN
        SpaScan(file, interferogram, i + 1, [l EXCEPT !.has_spa_history = TRUE])
    ELSE IF e.key = 102 /\ interferogram = "sample" THEN
        LET r == GetIntensities(e) IN
        IF r.err # "none" THEN [l EXCEPT !.err = r.err]
        ELSE SpaScan(file, interferogram, i + 1,
                     [l EXCEPT !.has_s_ifg = TRUE, !.s_ifg_intensities = r])
    ELSE IF e.key = 103 /\ interferogram = "background" THEN
        LET r == GetIntensities(e) IN
        IF r.err # "none" THEN [l EXCEPT !.err = r.err]
        ELSE SpaScan(file, interferogram, i + 1,
                     [l EXCEPT !.has_b_ifg = TRUE, !.b_ifg_intensities = r])
    ELSE IF e.key = 0 \/ e.key = 1 THEN l
    ELSE SpaScan(file, interferogram, i + 1, l)

\* _read_spa after the tag scan (lines 635-719), loc being the locals bound
ReadSpaAfterScan(loc, interferogram) ==
    \* an exception inside the loop leaves before fid.close() (line 635)
    IF loc.err # "none" THEN Outcome("error", loc.err, FALSE, <<>>, FreshObj)
    ELSE IF \/ interferogram = "sample" /\ ~loc.has_s_ifg
            \/ interferogram = "background" /\ ~loc.has_b_ifg
    THEN Outcome("null", "none", TRUE, <<>>, FreshObj)
    ELSE
    LET bound == IF interferogram = "sample" THEN loc.has_s_ifg
                 ELSE IF interferogram = "background" THEN loc.has_b_ifg
                 ELSE loc.has_intensities
        intensities == IF interferogram = "sample" THEN loc.s_ifg_intensities
                       ELSE IF interferogram = "background" THEN loc.b_ifg_intensities
                       ELSE loc.intensities
        n == Len(intensities.v)
        data == Matrix(<<1, n>>, <<intensities.v>>)
        xlen == IF interferogram = "None" THEN loc.info.nx ELSE n
        appended == <<"Imported from spa file(s)">>
                    \o (IF loc.has_spa_history
                        THEN <<"Data processing history from Omnic">> ELSE <<>>)
    IN
    \* line 648: intensities[np.newaxis]
    IF ~bound THEN Outcome("error", "UnboundLocalError", TRUE, <<>>, FreshObj)
    ELSE IF intensities.scalar THEN Outcome("error", "TypeError", TRUE, <<>>, FreshObj)
    \* lines 672 and 700: info[...]
    ELSE IF ~loc.has_info THEN Outcome("error", "UnboundLocalError", TRUE, <<>>, FreshObj)
    ELSE Outcome("ok", "none", TRUE, appended, Obj(data, xlen, 1, TRUE, "Path"))

\* OMNICReader._read_spa(source, interferogram=...), lines 531-719
ReadSpa(file, interferogram) ==
    ReadSpaAfterScan(SpaScan(file, interferogram, 1, SpaLocals0), interferogram)


\* A variant that appends its own provenance entry before it fails
SetLastHistoryAfterAppend(r, log) ==
    IF r.status = "error" THEN r
    ELSE IF Len(log \o r.appended) = 0
    THEN [r EXCEPT !.status = "error", !.err = "IndexError", !.obj = FreshObj,
                   !.appended = <<"Imported from ddr file(s)">>]
    ELSE r

\* _read_ddr, _read_hdr, _read_sdr (lines 1062-1072): _read_spa, then
\* self.history[-1] = "Imported from ... file(s)" on the list the history
\* getter builds afresh from self._history (lines 278-286): an IndexError when
\* that list is empty, no effect on the stored log otherwise.
\* `log` is self._history as _read_spa found it, r how _read_spa ended.
SetLastHistory(r, log) ==
    IF r.status = "error" THEN r
    ELSE IF Len(log \o r.appended) = 0
    THEN [r EXCEPT !.status = "error", !.err = "IndexError", !.obj = FreshObj]
    ELSE r

ReadSpaVariant(file, interferogram, log) ==
    SetLastHistory(ReadSpa(file, interferogram), log)

\* A count of the entries with key k that runs over the whole table
IndicesOfWholeTable(table, n, k) ==
    LET m == Len(table) IN
    [i \in 1..Cardinality({j \in 1..m : table[j].key = k}) |->
        CHOOSE j \in 1..m :
            /\ table[j].key = k
            /\ Cardinality({l \in 1..j : table[l].key = k}) = i]

\* The indices of the table entries with key k among the first n entries
\* (np.nonzero(keys == k), lines 402-403, 450-451, 463-464), in table order
RECURSIVE IndicesOf(_, _, _)
IndicesOf(table, n, k) ==
    IF n = 0 THEN <<>>
    ELSE IndicesOf(table, n - 1, k) \o (IF table[n].key = k THEN <<n>> ELSE <<>>)

\* np.ptp(a) != 0 on a non-empty array of numbers
PtpNonZero(a) == \E i, j \in DOMAIN a : a[i] # a[j]

\* len(set(a)) != 1
NotOneValue(a) == Cardinality({a[i] : i \in DOMAIN a}) # 1

\* data[i, :] = values (line 456): a scalar is broadcast over the row, an
\* array of another length than the row raises ValueError
RowAssign(r, ncols) ==
    IF r.scalar THEN [err |-> "none", row |-> [j \in 1..ncols |-> r.v[1]]]
    ELSE IF Len(r.v) # ncols THEN [err |-> "ValueError", row |-> <<>>]
    ELSE [err |-> "none", row |-> r.v]

\* The consistency checks without the one on the data units
InconsistentButUnits(nx, firstx, lastx, xunits, units) ==
    \/ PtpNonZero(nx)
    \/ PtpNonZero(firstx)
    \/ PtpNonZero(lastx)
    \/ NotOneValue(xunits)

\* The consistency checks of _read_spg, lines 422-444, on the values decoded
\* from the headers: whether one of them raises
Inconsistent(nx, firstx, lastx, xunits, units) ==
    \/ PtpNonZero(nx)
    \/ PtpNonZero(firstx)
    \/ PtpNonZero(lastx)
    \/ NotOneValue(xunits)
    \/ NotOneValue(units)

\* The first error of a sequence of step results, "none" when there is none
RECURSIVE FirstErr(_)
FirstErr(rs) ==
    IF rs = <<>> THEN "none"
    ELSE IF Head(rs).err # "none" THEN Head(rs).err
    ELSE FirstErr(Tail(rs))

\* A choice of the marker of row i that counts the markers from the last one
MarkerOfRowFromEnd(indices, i) == indices[Len(indices) + 1 - i]

\* position03[i], position6B[i] (lines 456, 470): the marker row i is read at
MarkerOfRow(indices, i) == indices[i]

\* OMNICReader._read_spg(source), lines 334-529.  OMNICReaderError kinds by
\* message: "information markers not found" is MalformedRecord, the
\* "Inconsistent data set" messages are InconsistentDataset.
ReadSpg(file) ==
    LET nlines == file.nlines
        table == file.table
        Fail(kind) == Outcome("error", kind, FALSE, <<>>, FreshObj)
    IN
    \* lines 377-380: the key byte of each of the nlines entries
    IF nlines > Len(table) THEN Fail("struct.error")
    ELSE
    LET indices02 == IndicesOf(table, nlines, 2)
        indices03 == IndicesOf(table, nlines, 3)
        indices6B == IndicesOf(table, nlines, 107)
        nspec == Len(indices02)
        infos == [i \in 1..nspec |-> ReadHeader(file.magic, table[indices02[i]].ptr)]
        nx == [i \in 1..nspec |-> infos[i].nx]
        firstx == [i \in 1..nspec |-> infos[i].firstx]
        lastx == [i \in 1..nspec |-> infos[i].lastx]
        xunits == [i \in 1..nspec |-> infos[i].xunits]
        units == [i \in 1..nspec |-> infos[i].units]
    IN
    IF nspec = 0 THEN Fail("MalformedRecord")
    ELSE IF FirstErr(infos) # "none" THEN Fail(FirstErr(infos))
    ELSE IF Inconsistent(nx, firstx, lastx, xunits, units)
    THEN Fail("InconsistentDataset")
    ELSE
    LET \* lines 455-456: row i from the i-th key-3 entry
        rowres == [i \in 1..nspec |->
                     IF i > Len(indices03) THEN [err |-> "IndexError", row |-> <<>>]
                     ELSE LET r == GetIntensities(table[MarkerOfRow(indices03, i)]) IN
                          IF r.err # "none" THEN [err |-> r.err, row |-> <<>>]
                          ELSE RowAssign(r, nx[1])]
        \* lines 468-479: title and date of row i from the i-th key-107 entry;
        \* its pointer 0 lies beyond the end of the file
        titleres == [i \in 1..nspec |->
                     IF i > Len(indices6B) THEN [err |-> "IndexError"]
                     ELSE IF table[MarkerOfRow(indices6B, i)].ptr = 0 THEN [err |-> "struct.error"]
                     ELSE [err |-> "none"]]
        data == Matrix(<<nspec, nx[1]>>, [i \in 1..nspec |-> rowres[i].row])
    IN
    IF FirstErr(rowres) # "none" THEN Fail(FirstErr(rowres))
    ELSE IF FirstErr(titleres) # "none" THEN Fail(FirstErr(titleres))
    ELSE Outcome("ok", "none", TRUE, <<"Imported from spg file">>,
                 Obj(data, nx[1], nspec, FALSE, "Path"))
         \* lines 519, 526: the axis title of the first header, and for each
         \* row the block its title and date were read at
         @@ [x_title |-> infos[1].xtitle,
             y_labels |-> [i \in 1..nspec |-> table[MarkerOfRow(indices6B, i)].ptr]]


\* The indices of the signature occurrences of the file that the byte string
\* sub matches (bytestring.find(sub, pos + 1) repeated, lines 840-843), in file
\* order.  An occurrence is "rs" (sub_rs), "hs" (sub_hs) or "tg" (the 10 bytes
\* of sub_tg followed by other bytes); sub_tg is a prefix of the other two and
\* matches every occurrence.
RECURSIVE FindAll(_, _, _)
FindAll(sigs, n, sub) ==
    IF n = 0 THEN <<>>
    ELSE FindAll(sigs, n - 1, sub)
         \o (IF sub = "tg" \/ sigs[n].sig = sub THEN <<n>> ELSE <<>>)

\* The floats of series row i (an array of n values)
SeriesRow(i, n) == [j \in 1..n |-> 10 * i + j]

\* An array left in its order
NotReversed(a) == a

\* np.linspace(firstx, lastx, n) (line 1027); the steps of the axes of the
\* headers drawn here are whole numbers
Linspace(firstx, lastx, n) ==
    [j \in 1..n |-> IF n = 1 THEN firstx
                    ELSE firstx + ((j - 1) * (lastx - firstx)) \div (n - 1)]

\* array[::-1]
Reverse(a) == [j \in 1..Len(a) |-> a[Len(a) + 1 - j]]

\* OMNICReader._read_srs_spectra(fid, pos_data, n_spectra, n_points), lines
\* 1416-1448.  `rows` is the number of complete rows stored from pos_data to
\* the end of the file.  fromfile(...)[:] on the scalar read when n_points = 1
\* is a TypeError; data[0, :] on a matrix of no row is an IndexError.
ReadSrsSpectra(rows, n_spectra, n_points) ==
    LET Row(i) == IF i > rows THEN [err |-> "struct.error"]
                  ELSE IF n_points = 1 THEN [err |-> "TypeError"]
                  ELSE IF i > n_spectra THEN [err |-> "IndexError"]
                  ELSE [err |-> "none"]
        steps == [i \in 1..(IF n_spectra = 0 THEN 1 ELSE n_spectra) |-> Row(i)]
    IN  [err |-> FirstErr(steps),
         data |-> [i \in 1..n_spectra |-> SeriesRow(i, n_points)]]

\* A choice of the sub-variant that tries the 10-byte signature first
SubVariantShortFirst(sigs) ==
    IF FindAll(sigs, Len(sigs), "tg") # <<>> THEN "tg"
    ELSE IF FindAll(sigs, Len(sigs), "rs") # <<>> THEN "rs"
    ELSE IF FindAll(sigs, Len(sigs), "hs") # <<>> THEN "hs"
    ELSE "none"

\* _read_srs, lines 790-815: the sub-variant whose flag is set, "none" when
\* the error of line 806 is raised
SubVariant(sigs) ==
    IF FindAll(sigs, Len(sigs), "rs") # <<>> THEN "rs"
    ELSE IF FindAll(sigs, Len(sigs), "hs") # <<>> THEN "hs"
    ELSE IF FindAll(sigs, Len(sigs), "tg") # <<>> THEN "tg"
    ELSE "none"

\* A test of the byte at offset 292 that does not look at the sub-variant
ProcessingStateOfAny(variant, key292) ==
    IF key292 = 39 THEN "pristine"
    ELSE IF key292 = 15 THEN "reprocessed"
    ELSE "MalformedRecord"

\* _read_srs, lines 817-832: is_reprocessed, from the byte at offset 292 of a
\* rapid-scan file, or the error raised; the byte is not read otherwise
ProcessingState(variant, key292) ==
    IF variant # "rs" THEN "unread"
    ELSE IF key292 = 39 THEN "pristine"
    ELSE IF key292 = 15 THEN "reprocessed"
    ELSE "MalformedRecord"

\* Where the local `history` of a series decode is read (lines 866-874,
\* 945-949): info["history"], the text behind the first 16 bytes 0xFF, the
\* text behind the high-speed marker; it stays unbound for TGA/GC
HistoryFrom(variant, state) ==
    IF variant = "rs" THEN (IF state = "reprocessed" THEN "after 0xFF marker"
                            ELSE "series header")
    ELSE IF variant = "hs" THEN "after high-speed marker"
    ELSE "unbound"

\* OMNICReader._read_srs(source, background=..., reverse_x=...), lines 721-1060,
\* with the sub-variant whose flag is set.
\* A series file is the sequence of its signature occurrences, each with the
\* header pointer at (its position - 152) and the number of rows readable at
\* (its position + 60), and the byte at offset 292.  `named` is whether
\* _openfid returned a file name.  OMNICReaderError kinds by message: "only
\* implemented for Rapid Scan, High Speed ..." is UnsupportedFormat, "not
\* recognized as a ... srs file" is MalformedRecord.
ReadSrsVariant(variant, file, named, background, reverse_x) ==
    LET sigs == file.sigs
        Fail(kind) == Outcome("error", kind, FALSE, <<>>, FreshObj)
    IN
    IF variant = "none" THEN Fail("UnsupportedFormat")
    ELSE IF ProcessingState(variant, file.key292) = "MalformedRecord"
    THEN Fail("MalformedRecord")
    ELSE
    LET found == FindAll(sigs, Len(sigs), variant)
        deltas == IF variant = "hs" THEN 4 ELSE 3
        \* np.array(index[:-1]) + [-152, -152, 60]: one occurrence is
        \* broadcast over the deltas, another count than theirs does not add
        index == IF Len(found) = 1 THEN [j \in 1..deltas |-> found[1]] ELSE found
    IN
    IF Len(found) # 1 /\ Len(found) # deltas THEN Fail("ValueError")
    ELSE IF Len(index) # deltas THEN Fail("MalformedRecord")
    ELSE
    LET pos_info == IF background THEN sigs[index[2]].hdr ELSE sigs[index[1]].hdr
        info == ReadHeader(file.magic, pos_info)
        xlen == info.nx
        fname == IF named THEN "Path" ELSE "str"
    IN
    IF info.err # "none" THEN Fail(info.err)
    ELSE IF ~background THEN
        \* info["ny"] of a header decoded with the non-series layout
        IF ~info.series THEN Fail("KeyError")
        ELSE
        LET sp == ReadSrsSpectra(sigs[index[deltas]].rows, info.ny, info.nx)
            rows == IF reverse_x THEN [i \in DOMAIN sp.data |-> Reverse(sp.data[i])]
                    ELSE sp.data
            appended == (IF variant = "tg" THEN <<>>
                         ELSE <<"Omnic 'DATA PROCESSING HISTORY'">>)
                        \o <<" imported from srs file">>
        IN
        IF sp.err # "none" THEN Fail(sp.err)
        ELSE Outcome("ok", "none", TRUE, appended,
                     Obj(Matrix(<<info.ny, info.nx>>, rows), xlen, info.ny, TRUE, fname))
             @@ [history_from |->
                    HistoryFrom(variant, ProcessingState(variant, file.key292)),
                 x |-> Linspace(info.firstx, info.lastx, info.nx)]
    ELSE
        IF info.has_background_name
        THEN Outcome("null", "none", FALSE, <<>>, FreshObj)
        ELSE
        LET r == FromFileFloats(SeriesRow(0, info.nx), info.nx)
            \* np.expand_dims(data, axis=0) of a scalar has one dimension
            shape == IF r.scalar THEN <<1>> ELSE <<1, info.nx>>
        IN
        Outcome("ok", "none", TRUE, <<" imported from srs file">>,
                Obj(Matrix(shape, <<r.v>>), xlen, 1, TRUE, fname))
        @@ [x |-> Linspace(info.firstx, info.lastx, info.nx)]

\* OMNICReader._read_srs(source, background=..., reverse_x=...)
ReadSrs(file, named, background, reverse_x) ==
    ReadSrsVariant(SubVariant(file.sigs), file, named, background, reverse_x)

-----------------------------------------------------------------------------
(* Bounds and the inputs drawn *)

\* Longest tag table of a file on disk
MaxTable == 3
\* Most spectra (groups of table entries) of a collection file
MaxSpec == 2
\* Most signature occurrences in a series file
MaxSigs == 4
\* Longest run of signature occurrences of mixed kinds in a series file
MaxMixed == 2
\* No call is made once the class-level history list holds this many entries
MaxHist == 2

SeqsUpTo(S, n) == UNION {[1..k -> S] : k \in 0..n}

Entry(key, ptr, size) == [key |-> key, ptr |-> ptr, size |-> size]

Ext(a, b, c) == <<".", a, b, c>>

\* The uniform shape of a file on disk: fmt is the decoder family its name
\* selects ("spa" for .spa .ddr .hdr .sdr)
File(fmt, magic, nlines, table, sigs, key292) ==
    [fmt |-> fmt, magic |-> magic, nlines |-> nlines, table |-> table,
     sigs |-> sigs, key292 |-> key292]

\* Single-spectrum files: the entries met from offset 304 to the end of the file
SpaEntries ==
    { Entry(0, 0, 0),      \* terminator
      Entry(2, 1, 0),      \* header, axis length 2
      Entry(3, 1, 8),      \* intensities, 2 floats
      Entry(3, 1, 12),     \* intensities, 3 floats
      Entry(27, 1, 4),     \* history text
      Entry(102, 2, 8),    \* sample interferogram, 2 floats
      Entry(103, 2, 8),    \* background interferogram, 2 floats
      Entry(9, 0, 0) }     \* a key the scan does not know

\* Tables of a spectrum or an interferogram with a history block, before and
\* behind the terminator
SpaHistoryTables ==
    { << Entry(2, 1, 0), Entry(3, 1, 8), Entry(27, 1, 4), Entry(0, 0, 0) >>,
      << Entry(27, 1, 4), Entry(2, 1, 0), Entry(3, 1, 8), Entry(0, 0, 0) >>,
      << Entry(2, 1, 0), Entry(27, 1, 4), Entry(102, 2, 8), Entry(0, 0, 0) >>,
      << Entry(2, 1, 0), Entry(3, 1, 8), Entry(0, 0, 0), Entry(27, 1, 4) >> }

\* Tables whose intensity marker points beyond the end of the file
SpaCutTables ==
    { << Entry(2, 1, 0), Entry(3, 0, 8), Entry(102, 2, 8), Entry(0, 0, 0) >>,
      << Entry(2, 1, 0), Entry(3, 0, 8), Entry(0, 0, 0) >> }

SpaFiles ==
    { File("spa", "data", 0, t, <<>>, 0) :
        t \in SeqsUpTo(SpaEntries, MaxTable) \cup SpaHistoryTables \cup SpaCutTables }


\* Collection files: the table is made of groups of entries, one group per
\* spectrum as OMNIC writes them (header, intensities, title), some of them
\* incomplete or with a surplus entry
SpgGroups ==
    { << Entry(2, h, 0), Entry(3, 2, 8), Entry(107, 1, 0) >> : h \in 1..7 }
    \cup
    { << Entry(2, 1, 0), Entry(3, 1, 8), Entry(107, 2, 0) >>,  \* other blocks
      << Entry(2, 1, 0), Entry(107, 1, 0) >>,                  \* no intensities
      << Entry(2, 1, 0), Entry(3, 1, 8) >>,                    \* no title
      << Entry(2, 1, 0), Entry(3, 1, 12), Entry(107, 1, 0) >>, \* 3 floats
      << Entry(2, 1, 0), Entry(3, 1, 4), Entry(107, 1, 0) >>,  \* 1 float
      << Entry(2, 0, 0), Entry(3, 1, 8), Entry(107, 1, 0) >>,  \* header beyond the end
      << Entry(3, 1, 8), Entry(107, 1, 0) >>,                  \* no header
      << Entry(9, 0, 0) >> }                                   \* an unknown key

RECURSIVE Concat(_)
Concat(ss) == IF ss = <<>> THEN <<>> ELSE Head(ss) \o Concat(Tail(ss))

SpgTables == { Concat(gs) : gs \in SeqsUpTo(SpgGroups, MaxSpec) }

\* The 16-bit entry count at offset 294: the table length, up to three
\* entries less, or one more than the file holds
EntryCounts(t) == { n \in 0..(Len(t) + 1) : n + 3 >= Len(t) }

SpgFiles ==
    UNION { { File("spg", "data", n, t, <<>>, 0) : n \in EntryCounts(t) } :
            t \in SpgTables }

\* Series files: the kinds of their signature occurrences in file order, the
\* header pointers at (first occurrence - 152) and (second occurrence - 152),
\* the rows readable 60 bytes after an occurrence, and the byte at offset 292
Sigs == {"rs", "hs", "tg"}

SigSeqs ==
    { [j \in 1..k |-> a] : k \in 0..MaxSigs, a \in Sigs } \cup SeqsUpTo(Sigs, MaxMixed)

Occurrences(kinds, h1, h2, rows) ==
    [j \in DOMAIN kinds |->
        [sig |-> kinds[j],
         hdr |-> IF j = 1 THEN h1 ELSE IF j = 2 THEN h2 ELSE 0,
         rows |-> rows]]

SrsFiles ==
    { File("srs", "exte", 0, <<>>, Occurrences(kinds, hh[1], hh[2], rows), k292) :
        kinds \in SigSeqs,
        hh \in { <<1, 1>>, <<1, 9>>, <<10, 10>>, <<8, 0>> },
        rows \in {1, 2},
        k292 \in {39, 15, 7} }

\* Sources and options
PathSource(ext, exists) == [kind |-> "path", ext |-> ext, exists |-> exists, nkeys |-> 0]
UrlSource(ext) == [kind |-> "url", ext |-> ext, exists |-> FALSE, nkeys |-> 0]
BytesSource == [kind |-> "bytes", ext |-> <<>>, exists |-> FALSE, nkeys |-> 0]
DictSource(nkeys, ext) == [kind |-> "dict", ext |-> ext, exists |-> FALSE, nkeys |-> nkeys]

\* The keyword options of a call; an option that is not passed has its default
\* (None, None, None, False, False)
Kwargs(protocol, sfx, interferogram, background, reverse_x) ==
    [protocol |-> protocol, suffix |-> sfx, interferogram |-> interferogram,
     background |-> background, reverse_x |-> reverse_x]

Interferograms == {"None", "sample", "background"}

\* The calls made on a file of each family
CallsOn(file) ==
    IF file.fmt = "spa" THEN
        { <<PathSource(e, TRUE), Kwargs(None, None, ifg, FALSE, FALSE)>> :
            e \in {Ext("s", "p", "a"), Ext("d", "d", "r"), Ext("h", "d", "r"),
                   Ext("s", "d", "r")},
            ifg \in Interferograms }
    ELSE IF file.fmt = "spg" THEN
        { <<PathSource(Ext("s", "p", "g"), TRUE), Kwargs(None, None, "None", FALSE, FALSE)>>,
          <<BytesSource, Kwargs(None, Ext("s", "p", "g"), "None", FALSE, FALSE)>>,
          <<BytesSource, Kwargs(None, None, "None", FALSE, FALSE)>> }
    ELSE
        { <<src, Kwargs(<<"s", "r", "s">>, None, "None", bg, rev)>> :
            src \in {PathSource(Ext("s", "r", "s"), TRUE), BytesSource},
            bg \in BOOLEAN, rev \in BOOLEAN }

-----------------------------------------------------------------------------
(* The reader objects and the calls *)

\* A reader object as far as its history log goes: own is whether the
\* instance has an attribute _history of its own (bound by the setter, line
\* 302), hist is that list; without it self._history is the class attribute.
NoReader == [exists |-> FALSE, own |-> FALSE, hist |-> <<>>]
NewReader == [exists |-> TRUE, own |-> FALSE, hist |-> <<>>]

\* self._history of a reader
Log(r) == IF r.own THEN r.hist ELSE clsHistory

\* str.capitalize() on the texts that reach a history log: the first
\* character in upper case, every other one in lower case
capitalize(text) ==
    CASE text = "user entry" -> "User entry"
      [] text = "Baseline Corrected" -> "Baseline corrected"
      [] text = "first" -> "First"
      [] text = "second" -> "Second"
      [] text = "Imported from spa file(s)" -> "Imported from spa file(s)"
      [] text = "Data processing history from Omnic" -> "Data processing history from omnic"
      [] text = "Imported from spg file" -> "Imported from spg file"
      \* the one-element tuple that _read_srs assigns (lines 1045-1048), as str() gives it
      [] text = "Omnic 'DATA PROCESSING HISTORY'" -> "(\"omnic 'data processing history'\",)"
      \* the text begins with a space (line 1049)
      [] text = " imported from srs file" -> " imported from srs file"

\* The history getter (lines 268-286) on a reader: one line per stored entry,
\* in the order of the list; a line is given without its date
history(r) == [i \in DOMAIN Log(r) |-> capitalize(Log(r)[i])]

NoObjOutcome(err) ==
    [status |-> "error", err |-> err, opened |-> FALSE, closed |-> FALSE,
     appended |-> <<>>, obj |-> FreshObj]

\* reader_func(source, **kwargs), line 266, on the file the source holds
Dispatch(func, file, source, kwargs, log) ==
    IF func = "_read_spa" THEN ReadSpa(file, kwargs.interferogram)
    ELSE IF func \in {"_read_ddr", "_read_hdr", "_read_sdr"}
    THEN ReadSpaVariant(file, kwargs.interferogram, log)
    ELSE IF func = "_read_spg" THEN ReadSpg(file)
    ELSE IF func = "_read_srs"
    THEN ReadSrs(file, source.kind # "bytes", kwargs.background, kwargs.reverse_x)
    ELSE NoObjOutcome(func)

Family(func) ==
    IF func \in {"_read_spa", "_read_ddr", "_read_hdr", "_read_sdr"} THEN "spa"
    ELSE IF func = "_read_spg" THEN "spg"
    ELSE IF func = "_read_srs" THEN "srs"
    ELSE "none"

\* __init__ from line 263 on, suffix being the tag _check_source returned
CallReader(func, file, source, kwargs, log) ==
    [func |-> func] @@ Dispatch(func, file, source, kwargs, log)

\* __init__ after _check_source ended as res (lines 260-266)
InitAfterCheck(res, file, source, kwargs, log) ==
    IF res.err # "none" THEN [func |-> "none"] @@ NoObjOutcome(res.err)
    ELSE CallReader(ReaderFunc(res.suffix), file, source, kwargs, log)

\* OMNICReader.__init__(source, **kwargs), lines 248-266
Init__(file, source, kwargs, log) ==
    InitAfterCheck(CheckSource(source, kwargs), file, source, kwargs, log)

\* A call OMNICReader(source, **kwargs).  The string and tuple values the
\* decoders assign to self.history are appended to self._history, which for
\* the new object is the list of the class attribute (line 307).
Returned(out, source, kwargs) ==
    /\ Family(out.func) \in {"none", disk.fmt}
    /\ clsHistory' = clsHistory \o out.appended
    /\ IF out.status = "error"
       THEN UNCHANGED <<rdr, held>>
       ELSE rdr' = NewReader /\ held' = rdr
    /\ last' = [op |-> "construct", source |-> source, kwargs |-> kwargs,
                before |-> clsHistory] @@ out

Construct(source, kwargs) ==
    /\ Len(clsHistory) < MaxHist
    /\ Returned(Init__(disk, source, kwargs, clsHistory), source, kwargs)
    /\ UNCHANGED disk

\* The values assigned to reader.history: None, a text, a list of texts
HistoryValues ==
    { [kind |-> "None", items |-> <<>>],
      [kind |-> "text", items |-> <<"user entry">>],
      [kind |-> "text", items |-> <<"Baseline Corrected">>],
      [kind |-> "list", items |-> <<>>],
      [kind |-> "list", items |-> <<"first", "second">>] }

\* A setter that keeps every element of a list
HistorySetterKeepsList(r, cls, value) ==
    IF value.kind = "None" THEN [reader |-> r, cls |-> cls]
    ELSE IF value.kind = "list" THEN
        [reader |-> [r EXCEPT !.own = TRUE, !.hist = value.items], cls |-> cls]
    ELSE IF r.own THEN [reader |-> [r EXCEPT !.hist = Append(@, value.items[1])], cls |-> cls]
    ELSE [reader |-> r, cls |-> Append(cls, value.items[1])]

\* A setter that puts a text in front of the log
HistorySetterInFront(r, cls, value) ==
    IF value.kind = "None" THEN [reader |-> r, cls |-> cls]
    ELSE IF value.kind = "list" THEN
        [reader |-> [r EXCEPT !.own = TRUE,
                              !.hist = IF Len(value.items) = 0 THEN <<>>
                                       ELSE <<value.items[1]>>],
         cls |-> cls]
    ELSE IF r.own THEN [reader |-> [r EXCEPT !.hist = <<value.items[1]>> \o @], cls |-> cls]
    ELSE [reader |-> r, cls |-> <<value.items[1]>> \o cls]

\* The history setter (lines 288-307) on a reader: the new reader, and the
\* new list of the class attribute
HistorySetter(r, cls, value) ==
    IF value.kind = "None" THEN [reader |-> r, cls |-> cls]
    ELSE IF value.kind = "list" THEN
        [reader |-> [r EXCEPT !.own = TRUE,
                              !.hist = IF Len(value.items) = 0 THEN <<>>
                                       ELSE <<value.items[1]>>],
         cls |-> cls]
    ELSE IF r.own THEN [reader |-> [r EXCEPT !.hist = Append(@, value.items[1])], cls |-> cls]
    ELSE [reader |-> r, cls |-> Append(cls, value.items[1])]

\* reader.history = value, on the latest reader
SetHistory(value) ==
    /\ rdr.exists
    /\ Len(Log(rdr)) < MaxHist
    /\ LET res == HistorySetter(rdr, clsHistory, value) IN
       /\ rdr' = res.reader
       /\ clsHistory' = res.cls
       /\ last' = [op |-> "set_history", value |-> value, before |-> Log(rdr)]
    /\ UNCHANGED <<disk, held>>

Init ==
    /\ disk \in SpaFiles \cup SpgFiles \cup SrsFiles
    /\ clsHistory = <<>>
    /\ rdr = NoReader
    /\ held = NoReader
    /\ last = [op |-> "none"]

Next ==
    \E c \in CallsOn(disk) : Construct(c[1], c[2])

\* Decode calls, in any number and order, on a file of any family
Spec == Init /\ [][Next]_vars

\* Calls of _check_source alone, on every kind of source and hint
SourceExts == { <<>>, Ext("s", "p", "a"), Ext("S", "P", "G"), Ext("s", "r", "s"),
                Ext("t", "x", "t") }

Sources ==
    { PathSource(e, x) : e \in SourceExts, x \in BOOLEAN }
    \cup { UrlSource(e) : e \in SourceExts }
    \cup { BytesSource }
    \cup { DictSource(n, e) : n \in {1, 2}, e \in SourceExts }
    \cup { DictSource(0, <<>>) }

\* The values of the protocol and suffix options: not passed, or a text
HintValues == { None, <<"s", "p", "g">>, Ext("S", "P", "A"), Ext("h", "d", "r"),
                <<"t", "x", "t">> }

CheckSourceCall(source, kwargs) ==
    /\ last' = [op |-> "check_source", source |-> source, kwargs |-> kwargs,
                result |-> CheckSource(source, kwargs)]
    /\ UNCHANGED <<disk, clsHistory, rdr, held>>

InitResolve ==
    /\ disk = File("spa", "data", 0, <<>>, <<>>, 0)
    /\ clsHistory = <<>>
    /\ rdr = NoReader
    /\ held = NoReader
    /\ last = [op |-> "none"]

\* The keyword options of the _check_source calls: every protocol and suffix
ResolveKwargs == { Kwargs(p, sfx, "None", FALSE, FALSE) : p \in HintValues, sfx \in HintValues }

NextResolve ==
    \E source \in Sources, kwargs \in ResolveKwargs : CheckSourceCall(source, kwargs)

SpecResolve == InitResolve /\ [][NextResolve]_vars

\* Decode calls and assignments to the history of the readers they return, on
\* a well-formed file of each family
HistoryFiles ==
    { File("spa", "data", 0, <<Entry(2, 1, 0), Entry(3, 1, 8), Entry(0, 0, 0)>>, <<>>, 0),
      File("spa", "data", 0,
           <<Entry(2, 1, 0), Entry(27, 1, 4), Entry(3, 1, 8), Entry(0, 0, 0)>>, <<>>, 0),
      File("spa", "data", 0, <<Entry(3, 1, 8), Entry(0, 0, 0)>>, <<>>, 0),
      File("spg", "data", 3,
           <<Entry(2, 1, 0), Entry(3, 2, 8), Entry(107, 1, 0)>>, <<>>, 0),
      File("srs", "exte", 0, <<>>, Occurrences(<<"rs", "rs", "rs">>, 1, 9, 2), 39),
      File("srs", "exte", 0, <<>>, Occurrences(<<"tg", "tg", "tg">>, 1, 1, 2), 0) }

InitHistory ==
    /\ disk \in HistoryFiles
    /\ clsHistory = <<>>
    /\ rdr = NoReader
    /\ held = NoReader
    /\ last = [op |-> "none"]

NextHistory ==
    \/ \E c \in CallsOn(disk) : Construct(c[1], c[2])
    \/ \E v \in HistoryValues : SetHistory(v)

SpecHistory == InitHistory /\ [][NextHistory]_vars

-----------------------------------------------------------------------------
(* The plugin: a batch of files read by one call of read_file *)

\* Most files in a batch
MaxBatch == 3

\* The files of a directory, by name
Directory ==
    [ name \in {"a.spa", "b.spa", "c.spa", "d.spg", "e.ddr"} |->
        CASE name = "a.spa" ->     \* a spectrum and its sample interferogram
               [source |-> PathSource(Ext("s", "p", "a"), TRUE),
                file |-> File("spa", "data", 0,
                              <<Entry(2, 1, 0), Entry(3, 1, 8), Entry(102, 2, 8),
                                Entry(0, 0, 0)>>, <<>>, 0)]
          [] name = "b.spa" ->     \* a spectrum without interferogram
               [source |-> PathSource(Ext("s", "p", "a"), TRUE),
                file |-> File("spa", "data", 0,
                              <<Entry(2, 1, 0), Entry(3, 1, 8), Entry(0, 0, 0)>>, <<>>, 0)]
          [] name = "c.spa" ->     \* a table that ends without terminator
               [source |-> PathSource(Ext("s", "p", "a"), TRUE),
                file |-> File("spa", "data", 0,
                              <<Entry(2, 1, 0), Entry(3, 1, 8)>>, <<>>, 0)]
          [] name = "d.spg" ->     \* a collection of one spectrum
               [source |-> PathSource(Ext("s", "p", "g"), TRUE),
                file |-> File("spg", "data", 3,
                              <<Entry(2, 1, 0), Entry(3, 2, 8), Entry(107, 1, 0)>>, <<>>, 0)]
          [] name = "e.ddr" ->     \* a spectrum without interferogram
               [source |-> PathSource(Ext("d", "d", "r"), TRUE),
                file |-> File("spa", "data", 0,
                              <<Entry(2, 1, 0), Entry(3, 1, 8), Entry(0, 0, 0)>>, <<>>, 0)] ]

Batches == SeqsUpTo(DOMAIN Directory, MaxBatch)

\* The locals of read_file before its loop (line 26), log being
\* OMNICReader._history; err is the exception that left the loop
ReadFileLocals0(log) ==
    [err |-> "none", log |-> log, nds |-> <<>>, calls |-> <<>>]

\* A turn of the loop that keeps the readers whose data is None
ReadFileStepKeepsNull(st, filename, out) ==
    [err |-> IF out.status = "error" THEN out.err ELSE "none",
     log |-> st.log \o out.appended,
     calls |-> Append(st.calls, [filename |-> filename, status |-> out.status,
                                 obj |-> out.obj]),
     nds |-> IF out.status # "error"
             THEN Append(st.nds, [filename |-> filename, obj |-> out.obj])
             ELSE st.nds]

\* One turn of the loop of read_file (lines 28-30), `out` being how
\* OMNICReader(filename, protocol=protocol, **kwargs) ended
ReadFileStep(st, filename, out) ==
    [err |-> IF out.status = "error" THEN out.err ELSE "none",
     log |-> st.log \o out.appended,
     calls |-> Append(st.calls, [filename |-> filename, status |-> out.status,
                                 obj |-> out.obj]),
     nds |-> IF out.status # "error" /\ ~out.obj.data.isNone
             THEN Append(st.nds, [filename |-> filename, obj |-> out.obj])
             ELSE st.nds]

\* The loop of read_file from the i-th file name on (lines 27-30): an
\* exception raised by OMNICReader leaves the loop and the function
RECURSIVE ReadFileLoop(_, _, _, _)
ReadFileLoop(filenames, kwargs, i, st) ==
    IF i > Len(filenames) \/ st.err # "none" THEN st
    ELSE ReadFileLoop(filenames, kwargs, i + 1,
             ReadFileStep(st, filenames[i],
                 Init__(Directory[filenames[i]].file, Directory[filenames[i]].source,
                        kwargs, st.log)))

\* The end of read_file (line 31): nds when it is not empty, None otherwise
ReadFileReturn(st) ==
    [err |-> st.err, log |-> st.log, calls |-> st.calls,
     result |-> IF st.err # "none" THEN [raised |-> TRUE, isNone |-> FALSE, nds |-> <<>>]
                ELSE IF Len(st.nds) > 0
                THEN [raised |-> FALSE, isNone |-> FALSE, nds |-> st.nds]
                ELSE [raised |-> FALSE, isNone |-> TRUE, nds |-> <<>>]]

\* OMNICReaderPlugin.read_file(filenames, protocol, **kwargs)
read_file(filenames, kwargs, log) ==
    ReadFileReturn(ReadFileLoop(filenames, kwargs, 1, ReadFileLocals0(log)))

ReadFileEnded(ret, filenames, kwargs) ==
    /\ clsHistory' = ret.log
    /\ last' = [op |-> "read_file", filenames |-> filenames, kwargs |-> kwargs,
                before |-> clsHistory, err |-> ret.err, calls |-> ret.calls,
                result |-> ret.result]

\* A call plugin.read_file(filenames, interferogram=...)
ReadFile(filenames, kwargs) ==
    /\ Len(clsHistory) < MaxHist
    /\ ReadFileEnded(read_file(filenames, kwargs, clsHistory), filenames, kwargs)
    /\ UNCHANGED <<disk, rdr, held>>

InitBatch ==
    /\ disk = Directory["a.spa"].file
    /\ clsHistory = <<>>
    /\ rdr = NoReader
    /\ held = NoReader
    /\ last = [op |-> "none"]

\* The keyword options of the batch calls: interferogram not passed, or 'sample'
BatchKwargs == { Kwargs(None, None, ifg, FALSE, FALSE) : ifg \in {"None", "sample"} }

NextBatch ==
    \E filenames \in Batches, kwargs \in BatchKwargs : ReadFile(filenames, kwargs)

\* Calls of the plugin's read_file on batches of the files of a directory
SpecBatch == InitBatch /\ [][NextBatch]_vars

-----------------------------------------------------------------------------
(* The text reader: _readbtext on a byte source, one loop turn per step *)

\* Most bytes in a byte source
MaxBytes == 4

\* The byte values a source is made of: NUL, two ASCII letters and one byte
\* that is not valid UTF-8 on its own
Byte == {0, 65, 66, 233}

ByteSources == SeqsUpTo(Byte, MaxBytes)

\* fid.read(n) with the file position at tell (0-based): the bytes that are
\* left, at most n of them; the position moves by the number of bytes read
FidRead(src, tell, n) ==
    SubSeq(src, tell + 1, IF tell + n <= Len(src) THEN tell + n ELSE Len(src))

\* re.sub(b"\x00+", b"\n", btext) from the i-th byte on (line 1462)
RECURSIVE CollapseNul(_, _)
CollapseNul(btext, i) ==
    IF i > Len(btext) THEN <<>>
    ELSE IF btext[i] # 0 THEN <<btext[i]>> \o CollapseNul(btext, i + 1)
    ELSE IF i > 1 /\ btext[i - 1] = 0 THEN CollapseNul(btext, i + 1)
    ELSE <<10>> \o CollapseNul(btext, i + 1)

\* btext[1:] when btext starts with a newline (lines 1464-1465)
StripFirst(btext) ==
    IF Len(btext) > 0 /\ btext[1] = 10 THEN Tail(btext) ELSE btext

\* btext[:-1] when btext ends with a newline (lines 1467-1468)
StripLast(btext) ==
    IF Len(btext) > 0 /\ btext[Len(btext)] = 10
    THEN SubSeq(btext, 1, Len(btext) - 1) ELSE btext

\* The character of an ASCII byte
AsciiChar(b) ==
    CASE b = 10 -> "\n" [] b = 65 -> "A" [] b = 66 -> "B"

\* The character of a byte in latin_1
Latin1Char(b) ==
    CASE b = 10 -> "\n" [] b = 65 -> "A" [] b = 66 -> "B" [] b = 233 -> "e-acute"

\* btext.decode("utf-8"), and btext.decode("latin_1") when that fails
\* (lines 1470-1476); a text is the sequence of its characters
Decode(btext) ==
    IF \A i \in DOMAIN btext : btext[i] < 128
    THEN [i \in DOMAIN btext |-> AsciiChar(btext[i])]
    ELSE [i \in DOMAIN btext |-> Latin1Char(btext[i])]

\* _readbtext from line 1462 on
FinishText(btext) == Decode(StripLast(StripFirst(CollapseNul(btext, 1))))

\* A call _readbtext(fid, pos, size) with a size: fid.seek(pos) and
\* fid.read(size) (lines 1455, 1460-1461), then the end of the function
ReadbtextSized(pos, size) ==
    /\ last.pc # "loop"
    /\ last' = [op |-> "_readbtext", pos |-> pos, sized |-> TRUE, size |-> size,
                tell |-> pos + Len(FidRead(disk, pos, size)),
                btext |-> FidRead(disk, pos, size), pc |-> "done",
                text |-> FinishText(FidRead(disk, pos, size))]
    /\ UNCHANGED <<disk, clsHistory, rdr, held>>

\* A call _readbtext(fid, pos, None): fid.seek(pos) and btext = b""
\* (lines 1455-1457), the loop being still to run
ReadbtextUnsized(pos) ==
    /\ last.pc # "loop"
    /\ last' = [op |-> "_readbtext", pos |-> pos, sized |-> FALSE, size |-> 0,
                tell |-> pos, btext |-> <<>>, pc |-> "loop", text |-> <<>>]
    /\ UNCHANGED <<disk, clsHistory, rdr, held>>

\* The loop body (line 1459), the test having read one byte and left the
\* position at tell: btext += fid.read(1)
ReadbtextBody(src, tell, btext) ==
    [ended |-> FALSE, tell |-> tell + Len(FidRead(src, tell, 1)),
     btext |-> btext \o FidRead(src, tell, 1)]

\* One turn of `while fid.read(1) != b"\x00"` (lines 1458-1459): the test
\* reads one byte; unless it is NUL the body reads the next one and appends it
ReadbtextTurn(src, tell, btext) ==
    IF FidRead(src, tell, 1) = <<0>>
    THEN [ended |-> TRUE, tell |-> tell + 1, btext |-> btext]
    ELSE ReadbtextBody(src, tell + Len(FidRead(src, tell, 1)), btext)

ReadbtextTurned(turn) ==
    last' = [last EXCEPT !.tell = turn.tell, !.btext = turn.btext,
                         !.pc = IF turn.ended THEN "done" ELSE "loop",
                         !.text = IF turn.ended THEN FinishText(turn.btext) ELSE @]

\* A turn of the loop of the call that is running
ReadbtextLoop ==
    /\ last.pc = "loop"
    /\ ReadbtextTurned(ReadbtextTurn(disk, last.tell, last.btext))
    /\ UNCHANGED <<disk, clsHistory, rdr, held>>

\* Here disk is the byte source behind fid
InitText ==
    /\ disk \in ByteSources
    /\ clsHistory = <<>>
    /\ rdr = NoReader
    /\ held = NoReader
    /\ last = [op |-> "none", pc |-> "idle"]

NextText ==
    \/ \E pos \in 0..Len(disk), size \in 1..2 : ReadbtextSized(pos, size)
    \/ \E pos \in 0..Len(disk) : ReadbtextUnsized(pos)
    \/ ReadbtextLoop

\* Calls of _readbtext; a call that is in its loop keeps running
SpecText == InitText /\ [][NextText]_vars /\ WF_vars(ReadbtextLoop)

-----------------------------------------------------------------------------
(* The tag scan of _read_spa, one table entry or one loop turn per step *)

\* The bytes from 208 bytes behind the header to the end of the file: the
\* text _read_header reads up to a NUL (line 1389)
HeaderTexts == { <<0>>, <<65, 0>>, <<65, 66, 0>>, <<65>> }

\* Single-spectrum files with the bytes behind their header
ScanFiles ==
    { f @@ [text |-> text] : f \in SpaFiles, text \in HeaderTexts }

\* The scan before its first turn (lines 592-593)
ScanLocals0(interferogram) ==
    [op |-> "_read_spa", interferogram |-> interferogram, pc |-> "scan",
     pos |-> 304, visited |-> <<>>, dispatched |-> <<>>, err |-> "none",
     tell |-> 0, btext |-> <<>>]

\* pos += 16 (line 633) after a branch of the scan has decoded the entry
ScanDispatched(st, key) ==
    [st EXCEPT !.pc = "scan", !.pos = @ + 16, !.dispatched = Append(@, key)]

ScanRaised(st, err) == [st EXCEPT !.pc = "raised", !.err = err]

\* The branches of the scan on the entry e read at st.pos (lines 600-633).
\* For key 2 the numeric fields of the header are read (lines 1294-1386),
\* the text behind it is still to be read.
ScanKey(file, st, e) ==
    IF e.key = 2 THEN
        IF ReadHeader(file.magic, e.ptr).err # "none"
        THEN ScanRaised(st, ReadHeader(file.magic, e.ptr).err)
        ELSE [st EXCEPT !.pc = "header", !.tell = 0, !.btext = <<>>]
    ELSE IF \/ DecodesIntensities(e.key, st.interferogram)
            \/ e.key = 102 /\ st.interferogram = "sample"
            \/ e.key = 103 /\ st.interferogram = "background" THEN
        IF GetIntensities(e).err # "none"
        THEN ScanRaised(st, GetIntensities(e).err)
        ELSE ScanDispatched(st, e.key)
    ELSE IF e.key = 4 \/ e.key = 27 THEN ScanDispatched(st, e.key)
    ELSE IF e.key = 0 \/ e.key = 1 THEN [st EXCEPT !.pc = "break"]
    ELSE [st EXCEPT !.pos = @ + 16]

\* One turn of the `while "continue"` loop (lines 594-633): the key byte at
\* pos is read, which raises struct.error at the end of the file
ScanTurn(file, st) ==
    IF (st.pos - 304) \div 16 + 1 > Len(file.table)
    THEN ScanRaised(st, "struct.error")
    ELSE ScanKey(file, [st EXCEPT !.visited = Append(@, st.pos)],
                 file.table[(st.pos - 304) \div 16 + 1])

\* The scan after a turn of the loop of _readbtext on the text behind the
\* header (line 1389, lines 1458-1459)
HeaderTextTurned(st, turn) ==
    IF turn.ended THEN ScanDispatched(st, 2)
    ELSE [st EXCEPT !.tell = turn.tell, !.btext = turn.btext]

\* A call of _read_spa reaches its scan
ScanStart(interferogram) ==
    /\ last.pc \in {"idle", "break", "raised"}
    /\ last' = ScanLocals0(interferogram)
    /\ UNCHANGED <<disk, clsHistory, rdr, held>>

ScanEntry ==
    /\ last.pc = "scan"
    /\ last' = ScanTurn(disk, last)
    /\ UNCHANGED <<disk, clsHistory, rdr, held>>

ScanHeaderText ==
    /\ last.pc = "header"
    /\ last' = HeaderTextTurned(last, ReadbtextTurn(disk.text, last.tell, last.btext))
    /\ UNCHANGED <<disk, clsHistory, rdr, held>>

InitScan ==
    /\ disk \in ScanFiles
    /\ clsHistory = <<>>
    /\ rdr = NoReader
    /\ held = NoReader
    /\ last = [op |-> "none", pc |-> "idle"]

NextScan ==
    \/ \E ifg \in Interferograms : ScanStart(ifg)
    \/ ScanEntry
    \/ ScanHeaderText

\* The tag scan of _read_spa calls; a scan that is running keeps running
SpecScan ==
    InitScan /\ [][NextScan]_vars /\ WF_vars(ScanEntry) /\ WF_vars(ScanHeaderText)

-----------------------------------------------------------------------------
(* The header decoder on its own *)

\* The float32 values stored as first x and last x
AxisBounds == {1, 2, 9, NaN}

\* The first 18 bytes of a file: the two known ones and another one
Magics == {"data", "exte", "other"}

\* Here disk is a file as far as _read_header reads it: its first bytes and
\* one header record
HeaderFiles ==
    { [magic |-> m, hdr |-> Hdr(2, 1, 17, a, b, n, 2, FALSE)] :
        m \in Magics, a \in AxisBounds, b \in AxisBounds, n \in {0, 4} }

\* A call _read_header(fid, pos), pos being the offset of the record or an
\* offset so near the end of the file that the record is cut
ReadHeaderCall(inside) ==
    /\ last' = [op |-> "_read_header", inside |-> inside]
               @@ ReadHeaderOf(disk.magic, disk.hdr, inside)
    /\ UNCHANGED <<disk, clsHistory, rdr, held>>

InitHeader ==
    /\ disk \in HeaderFiles
    /\ clsHistory = <<>>
    /\ rdr = NoReader
    /\ held = NoReader
    /\ last = [op |-> "none"]

NextHeader == \E inside \in BOOLEAN : ReadHeaderCall(inside)

\* Calls of _read_header on one header record
SpecHeader == InitHeader /\ [][NextHeader]_vars

-----------------------------------------------------------------------------
(* Properties of the decode calls, under Spec *)

\* The latest step was a call that reached the decoder func
Decoded(funcs) == last.op = "construct" /\ last.func \in funcs

SingleSpectrum == {"_read_spa", "_read_ddr", "_read_hdr", "_read_sdr"}

\* The readers that existed before the latest call
Earlier == IF last.status = "error" THEN rdr ELSE held

\* C1: every decode call closes the byte source it opened, on every exit path:
\* success, null result and every error raised after the source was opened.
C1_ClosedOnEveryExit ==
    (last.op = "construct" /\ last.opened) => last.closed

\* C2: the history log of the dataset a call produced holds only the entries
\* appended during that call, exactly one for a collection decode, and no call
\* changes the log seen through a dataset produced earlier.
C2_LogOfOneCall ==
    last.op = "construct" =>
        /\ last.status = "ok" => Log(rdr) = last.appended
        /\ (last.status = "ok" /\ last.func = "_read_spg") => Len(Log(rdr)) = 1
        /\ Earlier.exists => Log(Earlier) = last.before

\* The entries of a single-spectrum tag table before its terminator (key 0 or 1)
BeforeTerminator(table) ==
    { i \in DOMAIN table : \A j \in 1..i : table[j].key \notin {0, 1} }

HasTerminator(table) == \E i \in DOMAIN table : table[i].key \in {0, 1}

MarkerOf(interferogram) == IF interferogram = "sample" THEN 102 ELSE 103

\* C3: for each of the four single-spectrum tags and whatever was decoded
\* before, asking for the sample (background) interferogram of a file that has
\* no marker 102 (103) before the terminator raises nothing and gives the null
\* result, data None.
C3_MissingInterferogramIsNull ==
    ( /\ Decoded(SingleSpectrum)
      /\ last.kwargs.interferogram \in {"sample", "background"}
      /\ HasTerminator(disk.table)
      /\ \A i \in BeforeTerminator(disk.table) :
            disk.table[i].key # MarkerOf(last.kwargs.interferogram) )
    => (last.status = "null" /\ last.err = "none" /\ last.obj.data.isNone)

\* C4: a successful decode of any format gives a matrix whose row count is the
\* length of the y axis and whose column count is the length of the x axis.
C4_ShapeMatchesAxes ==
    (last.op = "construct" /\ last.status = "ok") =>
        last.obj.data.shape = <<last.obj.ylen, last.obj.xlen>>

\* The header markers (key 2) among the first N entries of a collection file,
\* N being the entry count at offset 294
HeaderMarkers(file) ==
    { i \in 1..file.nlines : i <= Len(file.table) /\ file.table[i].key = 2 }

\* The table and the headers its markers point to lie within the file
Readable(file) ==
    /\ file.nlines <= Len(file.table)
    /\ \A i \in HeaderMarkers(file) : file.table[i].ptr \in DOMAIN Headers

\* The five fields of the header marker i points to
FiveFields(file, i) ==
    LET h == Headers[file.table[i].ptr] IN
    <<h.nx, h.firstx, h.lastx, XUnits(h.xkey), DataUnits(h.ukey)>>

HeadersAgree(file) ==
    \A i, j \in HeaderMarkers(file) : FiveFields(file, i) = FiveFields(file, j)

\* C5: a collection decode returns a dataset only if all the spectrum headers
\* agree on axis length, first x, last x, axis unit and data unit; when two of
\* them differ in one of the five it fails with InconsistentDataset.
C5_HeadersAgreeOrFail ==
    (Decoded({"_read_spg"}) /\ Readable(disk)) =>
        /\ last.status = "ok" => HeadersAgree(disk)
        /\ ~HeadersAgree(disk) =>
              (last.status = "error" /\ last.err = "InconsistentDataset")

C5_Witness ==
    /\ Decoded({"_read_spg"})
    /\ Readable(disk)
    /\ ~HeadersAgree(disk)
    /\ last.err = "InconsistentDataset"

\* C6: the matrix of a collection decode has as many rows as there are key-2
\* entries among the first N table entries, entries after the N-th not being
\* counted; when there is none the decode fails with MalformedRecord.
C6_RowsAreHeaderMarkers ==
    Decoded({"_read_spg"}) =>
        LET n == Cardinality(HeaderMarkers(disk)) IN
        /\ last.status = "ok" =>
              (last.obj.data.shape[1] = n /\ Len(last.obj.data.rows) = n)
        /\ (disk.nlines <= Len(disk.table) /\ n = 0) =>
              (last.status = "error" /\ last.err = "MalformedRecord")

C6_Witness ==
    /\ Decoded({"_read_spg"})
    /\ last.status = "ok"
    /\ \E i \in DOMAIN disk.table : i > disk.nlines /\ disk.table[i].key = 2
    /\ Len(last.obj.data.rows) = Cardinality(HeaderMarkers(disk))

-----------------------------------------------------------------------------
(* Properties of the source resolver, under SpecResolve *)

\* The closed set of format tags
FormatTags ==
    { Ext("s", "p", "a"), Ext("s", "p", "g"), Ext("s", "r", "s"),
      Ext("d", "d", "r"), Ext("h", "d", "r"), Ext("s", "d", "r") }

\* Text t as a tag: with a leading dot, in lower case
AsTag(t) == Lower(IF t[1] = "." THEN t ELSE <<".">> \o t)

\* The hint of a call: the protocol option when it is passed, else the suffix
\* option when it is passed, as a tag; None when neither is passed
HintOf(kwargs) ==
    IF kwargs.protocol # None THEN AsTag(kwargs.protocol)
    ELSE IF kwargs.suffix # None THEN AsTag(kwargs.suffix)
    ELSE None

Checked(kind) == last.op = "check_source" /\ last.source.kind = kind

C8_ContentNeedsFormat ==
    (Checked("bytes") \/ Checked("dict")) =>
        LET hint == HintOf(last.kwargs) IN
        /\ ( /\ hint = None
             /\ \/ last.source.kind = "bytes"
                \/ last.source.nkeys = 1 /\ last.source.ext = <<>> )
           => last.result.err = "MissingFormat"
        /\ hint \in FormatTags => last.result = Resolved(hint)

\* C9: for every kind of input (path, URL, raw bytes, single-entry mapping)
\* and every hint the resolver fails with NotFound, MissingFormat or
\* UnsupportedFormat, or returns one of the six tags; no decoder is looked up
\* for an absent tag or a tag outside the set.
C9_ValidatedTag ==
    (last.op = "check_source" /\ (last.source.kind = "dict" => last.source.nkeys = 1)) =>
        \/ last.result.err \in {"NotFound", "MissingFormat", "UnsupportedFormat"}
        \/ /\ last.result.err = "none"
           /\ last.result.suffix \in FormatTags
           /\ ReaderFunc(last.result.suffix) \notin {"TypeError", "AttributeError"}

\* C10: for a URL the resolved tag is the hint when one is given, also when the
\* URL's extension is another recognized tag; when no hint is given the tag
\* resolved, if any, is the URL's lower-cased extension.
C10_UrlHintOverrides ==
    Checked("url") =>
        LET hint == HintOf(last.kwargs) IN
        /\ hint # None => last.result = Resolved(hint)
        /\ (hint = None /\ last.result.suffix # None)
           => last.result = Resolved(Lower(last.source.ext))

-----------------------------------------------------------------------------
(* Properties of the history log, under SpecHistory *)

\* The latest step assigned a value of this kind to the history of a reader
Assigned(kind) == last.op = "set_history" /\ last.value.kind = kind

Appears(text, line) == line = text

\* C12: assigning a text to the history appends one entry at the end and
\* leaves the earlier entries and their order as they were; the rendered log
\* has one line per entry, in insertion order, and the new text appears in the
\* last line.
C12_TextAppended ==
    Assigned("text") =>
        /\ Log(rdr) = Append(last.before, last.value.items[1])
        /\ Len(history(rdr)) = Len(Log(rdr))
        /\ Appears(last.value.items[1], history(rdr)[Len(history(rdr))])

\* C12, amended: the last rendered line holds the new text capitalized, its
\* first character in upper case and all its other characters in lower case.
C12_TextAppendedCapitalized ==
    Assigned("text") =>
        /\ Log(rdr) = Append(last.before, last.value.items[1])
        /\ Len(history(rdr)) = Len(Log(rdr))
        /\ \A i \in DOMAIN Log(rdr) : history(rdr)[i] = capitalize(Log(rdr)[i])
        /\ history(rdr)[Len(history(rdr))] = capitalize(last.value.items[1])

C12_Witness ==
    /\ Assigned("text")
    /\ Len(last.before) > 0
    /\ last.value.items[1] = "Baseline Corrected"
    /\ history(rdr)[Len(history(rdr))] = "Baseline corrected"


-----------------------------------------------------------------------------
(* Properties of the single-spectrum variants, under Spec *)

SpaVariants == {"_read_ddr", "_read_hdr", "_read_sdr"}

\* The provenance text that names the tag of a variant
ProvenanceOf(func) ==
    CASE func = "_read_ddr" -> "Imported from ddr file(s)"
      [] func = "_read_hdr" -> "Imported from hdr file(s)"
      [] func = "_read_sdr" -> "Imported from sdr file(s)"

\* The entries of a spa decode with the provenance entry naming another tag
Relabelled(entries, func) ==
    [i \in DOMAIN entries |->
        IF entries[i] = "Imported from spa file(s)" THEN ProvenanceOf(func)
        ELSE entries[i]]

\* C13: a successful ddr (hdr, sdr) decode gives the dataset the spa decoder
\* gives for the same bytes and options, except that the provenance entry of
\* its history log names ddr (hdr, sdr) instead of spa.
C13_VariantProvenance ==
    (Decoded(SpaVariants) /\ last.status = "ok") =>
        LET spa == ReadSpa(disk, last.kwargs.interferogram) IN
        /\ last.obj = spa.obj
        /\ last.appended = Relabelled(spa.appended, last.func)
        /\ Log(rdr) = last.before \o Relabelled(spa.appended, last.func)


-----------------------------------------------------------------------------
(* Properties of the finalization of a decode, under Spec *)

\* self.mask of a reader: np.isnan(self.data) where a decoder assigned it
\* (lines 662 and 1018), the class default None otherwise
mask(obj) ==
    IF obj.masked
    THEN [isNone |-> FALSE, shape |-> obj.data.shape,
          rows |-> [i \in DOMAIN obj.data.rows |->
                      [j \in DOMAIN obj.data.rows[i] |-> IsNaN(obj.data.rows[i][j])]]]
    ELSE [isNone |-> TRUE, shape |-> <<>>, rows |-> <<>>]

\* C14: after every successful decode (spg, spa and variants, srs with or
\* without background) the validity mask is set, has the shape of the matrix
\* and is true exactly where the matrix is NaN.
C14_MaskIsNaN ==
    (last.op = "construct" /\ last.status = "ok") =>
        LET m == mask(last.obj)  data == last.obj.data IN
        /\ ~m.isNone
        /\ m.shape = data.shape
        /\ DOMAIN m.rows = DOMAIN data.rows
        /\ \A i \in DOMAIN data.rows :
              /\ DOMAIN m.rows[i] = DOMAIN data.rows[i]
              /\ \A j \in DOMAIN data.rows[i] : m.rows[i][j] <=> IsNaN(data.rows[i][j])


-----------------------------------------------------------------------------
(* Properties of the series decoder, under Spec *)

\* The kinds of signature that occur in a series file
KindsIn(file) == { file.sigs[i].sig : i \in DOMAIN file.sigs }

\* The sub-variant by priority: rapid-scan when signature A ("rs") occurs,
\* else high-speed when B ("hs") occurs, else TGA/GC when only the 10-byte
\* signature C occurs
ByPriority(file) ==
    IF "rs" \in KindsIn(file) THEN "rs"
    ELSE IF "hs" \in KindsIn(file) THEN "hs"
    ELSE IF "tg" \in KindsIn(file) THEN "tg"
    ELSE "none"

\* The latest call ended as the decoder of this sub-variant ends on the file
EndedAs(variant) ==
    LET ran == ReadSrsVariant(variant, disk, last.source.kind # "bytes",
                              last.kwargs.background, last.kwargs.reverse_x)
    IN \A f \in DOMAIN ran : last[f] = ran[f]

\* C15: on a series file one sub-variant decoder runs, chosen by priority
\* (rapid-scan, else high-speed, else TGA/GC); when none of the three
\* signatures occurs the decode fails with UnsupportedFormat.
C15_SubVariantPriority ==
    Decoded({"_read_srs"}) =>
        /\ EndedAs(ByPriority(disk))
        /\ KindsIn(disk) = {} =>
              (last.status = "error" /\ last.err = "UnsupportedFormat")

C15_Witness ==
    /\ Decoded({"_read_srs"})
    /\ {"rs", "hs"} \subseteq KindsIn(disk)
    /\ EndedAs("rs")
    /\ ~EndedAs("hs")
    /\ ~EndedAs("tg")


\* The number of occurrences of the signature of a sub-variant in a file; the
\* 10-byte signature of TGA/GC is the beginning of the other two
Count(file, variant) ==
    Cardinality({ i \in DOMAIN file.sigs : variant = "tg" \/ file.sigs[i].sig = variant })

ExpectedCount(variant) == IF variant = "hs" THEN 4 ELSE 3

\* C16: a series decode fails with MalformedRecord whenever the matched
\* signature occurs another number of times than expected (3 for rapid-scan
\* and TGA/GC, 4 for high-speed), 1 and 2 included, and then returns nothing.
C16_WrongCountIsMalformed ==
    ( /\ Decoded({"_read_srs"})
      /\ ByPriority(disk) # "none"
      /\ Count(disk, ByPriority(disk)) # ExpectedCount(ByPriority(disk)) )
    => (last.status = "error" /\ last.err = "MalformedRecord" /\ last.obj = FreshObj)


\* The second occurrence of the signature of a sub-variant in a file
SecondOf(file, variant) ==
    CHOOSE i \in DOMAIN file.sigs :
        /\ variant = "tg" \/ file.sigs[i].sig = variant
        /\ Cardinality({ j \in 1..(i - 1) :
                           variant = "tg" \/ file.sigs[j].sig = variant }) = 1

\* A series file that has the occurrences its sub-variant expects, the byte
\* at offset 292 a rapid-scan file needs, and a background header within the file
WellFormedSeries(file) ==
    /\ ByPriority(file) # "none"
    /\ Count(file, ByPriority(file)) = ExpectedCount(ByPriority(file))
    /\ ByPriority(file) = "rs" => file.key292 \in {39, 15}
    /\ file.sigs[SecondOf(file, ByPriority(file))].hdr \in DOMAIN Headers

\* C17: with the background requested, the header at (second occurrence -
\* 152) is decoded and no series row is read; when its text at +208 does not
\* begin with "Background" the result is a matrix of one row holding the
\* axis-length floats read at header + 208, otherwise the result is null and
\* nothing is raised.
C17_BackgroundRow ==
    (Decoded({"_read_srs"}) /\ last.kwargs.background /\ WellFormedSeries(disk)) =>
        LET h == Headers[disk.sigs[SecondOf(disk, ByPriority(disk))].hdr] IN
        IF h.bgname
        THEN last.status = "null" /\ last.err = "none" /\ last.obj.data.isNone
        ELSE /\ last.status = "ok"
             /\ last.obj.data.shape = <<1, h.nx>>
             /\ last.obj.data.rows = <<SeriesRow(0, h.nx)>>


-----------------------------------------------------------------------------
(* Properties of the string form of a reader, under Spec *)

\* OMNICReader.__str__ (lines 312-321) on the attributes of a reader:
\* f"OMNICReader: {self.filename.name} {self.data.shape}".  filename is a Path
\* ("Path"), a text ("str") or None; a text and None have no attribute `name`,
\* and a data of None has no attribute `shape`.
Str(obj) ==
    IF obj.filename # "Path" THEN [err |-> "AttributeError", shape |-> <<>>]
    ELSE IF obj.data.isNone THEN [err |-> "AttributeError", shape |-> <<>>]
    ELSE [err |-> "none", shape |-> obj.data.shape]

\* C18: for the reader of every successful decode, whatever the format and
\* the kind of input, str(reader) raises nothing and is "OMNICReader: ", the
\* name of the file and the shape of the matrix.
C18_StrOfReader ==
    (last.op = "construct" /\ last.status = "ok") =>
        Str(last.obj) = [err |-> "none", shape |-> last.obj.data.shape]


-----------------------------------------------------------------------------
(* Properties of the plugin's read_file, under SpecBatch *)

\* The file names of the decoder calls of a batch, in call order
Names(calls) == [i \in DOMAIN calls |-> calls[i].filename]

\* The calls that ended with a reader whose data is not None, in call order
NonNull(calls) ==
    SelectSeq(calls, LAMBDA c : c.status # "error" /\ ~c.obj.data.isNone)

\* What a list of calls contributes to the result of read_file
Delivered(calls) ==
    [i \in DOMAIN NonNull(calls) |->
        [filename |-> NonNull(calls)[i].filename, obj |-> NonNull(calls)[i].obj]]

\* C19: a call of read_file that returns has invoked the decoder once per
\* source, in input order, and returns the results whose data is not None in
\* that order, null results being dropped; when every result is null it
\* returns None and not an empty list.
C19_NonNullResultsInOrder ==
    (last.op = "read_file" /\ ~last.result.raised) =>
        /\ Names(last.calls) = last.filenames
        /\ last.result.nds = Delivered(last.calls)
        /\ last.result.isNone <=> Len(Delivered(last.calls)) = 0

\* A returned batch of three files where a null result stands between two
\* results that are delivered
C19_Witness ==
    /\ last.op = "read_file" /\ ~last.result.raised
    /\ Len(last.filenames) = 3
    /\ last.filenames[1] # last.filenames[3]
    /\ ~last.calls[1].obj.data.isNone
    /\ last.calls[2].obj.data.isNone
    /\ ~last.calls[3].obj.data.isNone
    /\ Names(last.result.nds) = <<last.filenames[1], last.filenames[3]>>

\* A file that is decoded to a Dataset when it is read on its own
IsDataset(out) == out.status # "error" /\ ~out.obj.data.isNone

DecodesAlone(filename, kwargs, log) ==
    IsDataset(Init__(Directory[filename].file, Directory[filename].source, kwargs, log))

\* C20: in a batch, an error raised while decoding one file does not abort
\* the decoding of its siblings: every file of the batch is decoded and the
\* Dataset of every file that decodes is delivered.
C20_ErrorKeepsSiblings ==
    last.op = "read_file" =>
        /\ Names(last.calls) = last.filenames
        /\ \A i \in DOMAIN last.filenames :
               DecodesAlone(last.filenames[i], last.kwargs, last.before) =>
                   \E j \in DOMAIN last.result.nds :
                       last.result.nds[j].filename = last.filenames[i]


-----------------------------------------------------------------------------
(* Properties of the text reader, under SpecText *)

\* C21: a call of _readbtext with size None terminates on every byte source
\* and every start offset: it returns, or fails with MalformedRecord when no
\* NUL is met before the end of the source; it never reads forever.
C21_TerminatedTextTerminates ==
    (last.pc = "loop") ~> (last.pc \in {"done", "MalformedRecord"})

\* The 0-based offset of the first NUL byte at or after pos; Len(src) if none
RECURSIVE FirstNul(_, _)
FirstNul(src, pos) ==
    IF pos >= Len(src) \/ src[pos + 1] = 0 THEN pos ELSE FirstNul(src, pos + 1)

\* The bytes from pos up to, and excluding, the first NUL at or after pos
UpToNul(src, pos) == SubSeq(src, pos + 1, FirstNul(src, pos))

\* C22: a call of _readbtext with size None that returns gives the text
\* made of every byte from the start offset up to, and excluding, the first
\* NUL byte at or after it.
C22_TextUpToTerminator ==
    (last.op = "_readbtext" /\ ~last.sized /\ last.pc = "done") =>
        last.text = Decode(UpToNul(disk, last.pos))


-----------------------------------------------------------------------------
(* Properties of the tag scan of _read_spa, under SpecScan *)

\* C23: on every finite file the tag scan of _read_spa terminates, at the
\* first entry whose key is 0 or 1 or by the failure of a read beyond the end
\* of the file.
C23_ScanTerminates ==
    (last.pc \in {"scan", "header"}) ~>
        \/ last.pc = "break"
        \/ last.pc = "raised" /\ last.err = "struct.error"


-----------------------------------------------------------------------------
(* Properties of the provenance of a single-spectrum decode, under Spec *)

\* A history block (key 27) stands before the terminator of the table
HistoryBlockMet(table) ==
    \E i \in BeforeTerminator(table) : table[i].key = 27

\* C24: a successful single-spectrum decode adds exactly one entry to the
\* history log: the history-block text when a history block (key 27) was met
\* before the terminator, the default 'Imported from spa file(s)' otherwise.
C24_OneProvenanceEntry ==
    (Decoded(SingleSpectrum) /\ last.status = "ok") =>
        last.appended = IF HistoryBlockMet(disk.table)
                        THEN <<"Data processing history from Omnic">>
                        ELSE <<"Imported from spa file(s)">>


-----------------------------------------------------------------------------
(* Properties of the processing state of a series, under Spec *)

\* The latest call ended as a series decode ends on this file
EndedOn(file) ==
    LET ran == ReadSrs(file, last.source.kind # "bytes",
                       last.kwargs.background, last.kwargs.reverse_x)
    IN \A f \in DOMAIN ran : f \in DOMAIN last /\ last[f] = ran[f]

\* C25: for a rapid-scan series the byte at offset 292 decides the processing
\* state: with 39 the history is the one of the series header, with 15 it is
\* the text behind the first 16 bytes 0xFF, with any other value the decode
\* fails with MalformedRecord and nothing is decoded; a high-speed or TGA/GC
\* decode ends the same way whatever that byte is.
C25_ProcessingStateByte ==
    Decoded({"_read_srs"}) =>
        /\ (ByPriority(disk) = "rs" /\ disk.key292 \notin {39, 15}) =>
              (last.status = "error" /\ last.err = "MalformedRecord"
               /\ last.obj = FreshObj)
        /\ (ByPriority(disk) = "rs" /\ last.status = "ok" /\ ~last.kwargs.background) =>
              last.history_from = IF disk.key292 = 39 THEN "series header"
                                  ELSE "after 0xFF marker"
        /\ ByPriority(disk) \in {"hs", "tg"} =>
              \A k \in {39, 15, 7} : EndedOn([disk EXCEPT !.key292 = k])

\* A reprocessed rapid-scan series is decoded
C25_Witness ==
    /\ Decoded({"_read_srs"})
    /\ ByPriority(disk) = "rs" /\ disk.key292 = 15
    /\ last.status = "ok" /\ ~last.kwargs.background
    /\ last.history_from = "after 0xFF marker"


-----------------------------------------------------------------------------
(* Properties of the axis-reversal flag of a series decode, under Spec *)

\* How the latest series decode ends on the same file without reverse_x
Unflagged ==
    ReadSrs(disk, last.source.kind # "bytes", last.kwargs.background, FALSE)

\* The rows of a matrix are those of another with the columns in reverse order
ColumnsReversed(rows, of) ==
    /\ DOMAIN rows = DOMAIN of
    /\ \A i \in DOMAIN rows :
          /\ Len(rows[i]) = Len(of[i])
          /\ \A j \in DOMAIN rows[i] : rows[i][j] = of[i][Len(of[i]) + 1 - j]

\* The latest call and a decode agree on everything but the matrix values
SameButRows(out) ==
    /\ DOMAIN out \subseteq DOMAIN last
    /\ \A f \in DOMAIN out \ {"obj"} : last[f] = out[f]
    /\ \A f \in DOMAIN out.obj \ {"data"} : last.obj[f] = out.obj[f]
    /\ last.obj.data.isNone = out.obj.data.isNone
    /\ last.obj.data.shape = out.obj.data.shape

\* C26: with reverse_x set a series decode ends as it ends without the flag,
\* with the same column axis, row axis, log entries and other fields, except
\* that each row of the matrix has its columns in reverse order; when the
\* background is requested the matrix is the same too.
C26_ReverseXColumns ==
    (Decoded({"_read_srs"}) /\ last.kwargs.reverse_x) =>
        /\ SameButRows(Unflagged)
        /\ IF last.kwargs.background
           THEN last.obj.data.rows = Unflagged.obj.data.rows
           ELSE ColumnsReversed(last.obj.data.rows, Unflagged.obj.data.rows)

\* A series of rows of several columns is decoded with reverse_x set
C26_Witness ==
    /\ Decoded({"_read_srs"}) /\ last.kwargs.reverse_x /\ ~last.kwargs.background
    /\ last.status = "ok"
    /\ Len(last.obj.data.rows) >= 2
    /\ last.obj.data.rows # Unflagged.obj.data.rows
    /\ last.x = Unflagged.x


-----------------------------------------------------------------------------
(* Properties of the header decoder, under SpecHeader *)

\* The latest call of _read_header returned a dictionary
HeaderReturned == last.op = "_read_header" /\ last.err = "none"

\* A series header with no background scan and first x stored greater than last x
DescendingSeries ==
    /\ disk.magic = "exte" /\ disk.hdr.nbkgscan = 0
    /\ disk.hdr.firstx # NaN /\ disk.hdr.lastx # NaN
    /\ disk.hdr.firstx > disk.hdr.lastx

\* The bounds are returned swapped in a descending series header, as stored
\* in every other header
SwappedExactlyThen ==
    IF DescendingSeries
    THEN last.firstx = disk.hdr.lastx /\ last.lastx = disk.hdr.firstx
    ELSE last.firstx = disk.hdr.firstx /\ last.lastx = disk.hdr.lastx

\* C27: as stated, the header decoder returns first x and last x swapped
\* exactly when the file is a series, the background-scan count is 0 and the
\* stored first x is greater than the stored last x, so that such a header
\* always has first x <= last x.
C27_SwapGivesAscending ==
    HeaderReturned =>
        /\ SwappedExactlyThen
        /\ (disk.magic = "exte" /\ disk.hdr.nbkgscan = 0) =>
              (last.firstx # NaN /\ last.lastx # NaN /\ last.firstx <= last.lastx)

\* C27: amended, a series header with background-scan count 0 has
\* first x <= last x when both stored values are numbers.
C27_SwapGivesAscendingNumbers ==
    HeaderReturned =>
        /\ SwappedExactlyThen
        /\ (disk.magic = "exte" /\ disk.hdr.nbkgscan = 0
            /\ disk.hdr.firstx # NaN /\ disk.hdr.lastx # NaN) =>
              last.firstx <= last.lastx

\* A descending series header is returned with its bounds swapped
C27_Witness ==
    /\ HeaderReturned /\ DescendingSeries
    /\ last.firstx = disk.hdr.lastx /\ last.lastx = disk.hdr.firstx
    /\ last.firstx < last.lastx


-----------------------------------------------------------------------------
(* Properties of the rows of a collection decode, under Spec *)

\* The entries with key k among the entries the collection decoder counts
MarkersOf(file, k) ==
    { j \in 1..file.nlines : j <= Len(file.table) /\ file.table[j].key = k }

\* The i-th entry with key k in table order
NthMarker(file, k, i) ==
    file.table[CHOOSE j \in MarkersOf(file, k) :
                   Cardinality({ l \in MarkersOf(file, k) : l <= j }) = i]

\* The float at column j of the block an intensity marker points to; a block
\* of one float fills its row
FloatOf(e, j) == BlockAt(e.ptr)[IF e.size \div 4 = 1 THEN 1 ELSE j]

\* C28: in a collection decode row i of the matrix is read at the i-th
\* intensity marker (key 3), its label at the i-th title marker (key 107) and
\* the axis at the first header marker (key 2), in table order, surplus
\* intensity and title markers being ignored; with fewer intensity markers or
\* fewer title markers than header markers the decode fails and returns no
\* dataset.
C28_RowsByMarkerOrder ==
    (Decoded({"_read_spg"}) /\ disk.nlines <= Len(disk.table)) =>
        /\ last.status = "ok" =>
              /\ last.x_title = XTitle(Headers[NthMarker(disk, 2, 1).ptr].xkey)
              /\ \A i \in 1..Cardinality(MarkersOf(disk, 2)) :
                    /\ last.y_labels[i] = NthMarker(disk, 107, i).ptr
                    /\ \A j \in 1..Headers[NthMarker(disk, 2, i).ptr].nx :
                          last.obj.data.rows[i][j] = FloatOf(NthMarker(disk, 3, i), j)
        /\ ( \/ Cardinality(MarkersOf(disk, 3)) < Cardinality(MarkersOf(disk, 2))
             \/ Cardinality(MarkersOf(disk, 107)) < Cardinality(MarkersOf(disk, 2)) ) =>
              (last.status = "error" /\ last.obj = FreshObj)

\* A collection of two spectra read at different blocks is decoded
C28_Witness ==
    /\ Decoded({"_read_spg"}) /\ last.status = "ok"
    /\ Len(last.obj.data.rows) = 2
    /\ last.obj.data.rows[1] # last.obj.data.rows[2]
    /\ last.y_labels[1] # last.y_labels[2]
    /\ last.obj.data.rows[1][1] = FloatOf(NthMarker(disk, 3, 1), 1)


-----------------------------------------------------------------------------
(* Properties of the markers a single-spectrum decode needs, under Spec *)

\* An entry with key k stands before the terminator of the table
MarkerMet(table, k) == \E i \in BeforeTerminator(table) : table[i].key = k

\* The file with its intensity markers turned into entries of an unknown key
WithoutIntensities(file) ==
    [file EXCEPT !.table = [i \in DOMAIN file.table |->
                               IF file.table[i].key = 3 THEN Entry(9, 0, 0)
                               ELSE file.table[i]]]

\* The latest call ended as the same call ends on this file
EndedAsOn(file) ==
    LET ran == Dispatch(last.func, file, last.source, last.kwargs, last.before)
    IN \A f \in DOMAIN ran : last[f] = ran[f]

\* C29: a single-spectrum decode with no interferogram requested returns a
\* dataset only if a header marker (key 2) and an intensity marker (key 3)
\* stand before the first terminator, and fails without a dataset when one of
\* them is missing; with an interferogram requested the intensity markers are
\* not decoded: the call ends as on the file without them.
C29_NeedsHeaderAndIntensities ==
    Decoded(SingleSpectrum) =>
        IF last.kwargs.interferogram = "None"
        THEN /\ last.status # "error" =>
                  /\ last.status = "ok"
                  /\ HasTerminator(disk.table)
                  /\ MarkerMet(disk.table, 2) /\ MarkerMet(disk.table, 3)
             /\ (~MarkerMet(disk.table, 2) \/ ~MarkerMet(disk.table, 3)) =>
                  (last.status = "error" /\ last.obj = FreshObj)
        ELSE EndedAsOn(WithoutIntensities(disk))

\* A spectrum is decoded from a table with both markers, and an interferogram
\* from a table whose intensity marker cannot be decoded
C29_Witness ==
    /\ Decoded({"_read_spa"}) /\ last.status = "ok"
    /\ MarkerMet(disk.table, 2) /\ MarkerMet(disk.table, 3)
    /\ \/ last.kwargs.interferogram = "None"
       \/ /\ last.kwargs.interferogram = "sample"
          /\ \E i \in BeforeTerminator(disk.table) :
                disk.table[i].key = 3 /\ GetIntensities(disk.table[i]).err # "none"


-----------------------------------------------------------------------------
(* Properties of the calls that give no dataset, under SpecHistory *)

\* The latest step was a decode call that raised or gave the null result
GaveNoDataset ==
    last.op = "construct" /\ last.status \in {"error", "null"}

\* C30: a decode call that ends with an error or with the null result
\* appends nothing to a history log: the list of the class, the log of the
\* reader that existed before and the log of the reader a null result leaves
\* are what they were before the call.
C30_NoEntryWithoutDataset ==
    GaveNoDataset =>
        /\ last.appended = <<>>
        /\ clsHistory = last.before
        /\ (Earlier.exists /\ ~Earlier.own) => Log(Earlier) = last.before
        /\ last.status = "null" => Log(rdr) = last.before

\* A call raises while decoding, after a dataset with a log was decoded
C30_Witness ==
    /\ GaveNoDataset
    /\ last.status = "error" /\ last.opened
    /\ rdr.exists
    /\ last.before # <<>>
    /\ clsHistory = last.before

=============================================================================
